---- MODULE Spec2Model ----
(***************************************************************************)
(* timescan: TimestampFinder (src/src/timestamp_finder.rs).                *)
(*                                                                         *)
(* A TimestampFinder holds a strftime template (datetime_format) and the   *)
(* regular expression compiled from it by strftime_to_regex.               *)
(* find_timestamp searches a string with the regex and parses the matched  *)
(* substring with chrono's NaiveDateTime::parse_from_str; scan applies     *)
(* find_timestamp to the lines of a reader.                                *)
(*                                                                         *)
(* Strings are TLA+ strings (TLC evaluates Len, \o and SubSeq on them).    *)
(* The regex crate and chrono are modelled on the subset of their input    *)
(* languages that the templates and texts below can produce.               *)
(***************************************************************************)
EXTENDS Integers, Sequences, FiniteSets, TLC

VARIABLES
    format_arg,     \* the datetime_format argument given to new_with_format
    ctor,           \* "pending" | "ok" | "err": outcome of new_with_format
    finder,         \* NoFinder, or the TimestampFinder {datetime_format, regex}
    pc,             \* per caller thread: "idle" | "scanning"
    reader,         \* per thread: the items the reader of scan will still yield
    lines_read,     \* per thread: the items lines() has yielded so far in this scan
    timestamps,     \* per thread: the vector collected by the running/last scan
    scan_ret,       \* per thread: NoValue, or the value returned by the last scan
    arg,            \* per thread: NoValue, or <<s>> of the last find_timestamp call
    regex_match,    \* per thread: the local regex_match of the last find_timestamp
    ret,            \* per thread: the Option<i64> returned by the last find_timestamp
    text            \* the text the caller of find_timestamp will pass (input)

vars == <<format_arg, ctor, finder, pc, reader, lines_read, timestamps,
          scan_ret, arg, regex_match, ret, text>>

-----------------------------------------------------------------------------
(* Bounds *)

MaxPieces == 2          \* pieces per template in the compiler specification
MaxLines == 3           \* items per reader in the single-caller scan specification
MaxSharedLines == 1     \* items per reader when two threads share the Finder
MaxDigits == 11         \* longest digit run in the %s texts

-----------------------------------------------------------------------------
(* String helpers *)

Ch(s, i) == IF i >= 1 /\ i <= Len(s) THEN SubSeq(s, i, i) ELSE ""

Rest(s, i) == SubSeq(s, i, Len(s))

StartsWith(s, i, t) == i + Len(t) - 1 <= Len(s) /\ SubSeq(s, i, i + Len(t) - 1) = t

Digits == "0123456789"

RECURSIVE IndexIn(_, _, _)
IndexIn(c, s, i) ==
    IF i > Len(s) THEN 0
    ELSE IF Ch(s, i) = c THEN i ELSE IndexIn(c, s, i + 1)

IsDigit(c) == Len(c) = 1 /\ IndexIn(c, Digits, 1) # 0

DigitVal(c) == IndexIn(c, Digits, 1) - 1

Upper == "ABCDEFGHIJKLMNOPQRSTUVWXYZ"
Lower == "abcdefghijklmnopqrstuvwxyz"

IsAlpha(c) == Len(c) = 1 /\ (IndexIn(c, Upper, 1) # 0 \/ IndexIn(c, Lower, 1) # 0)

ToLowerCh(c) ==
    LET k == IndexIn(c, Upper, 1) IN IF k # 0 THEN Ch(Lower, k) ELSE c

RECURSIVE ToLower(_)
ToLower(s) == IF s = "" THEN "" ELSE ToLowerCh(Ch(s, 1)) \o ToLower(Rest(s, 2))

-----------------------------------------------------------------------------
(* Format compiler: strftime_to_regex *)

\* str::replace: every non-overlapping occurrence of from, left to right.
RECURSIVE Replace(_, _, _)
Replace(s, from, to) ==
    IF Len(s) < Len(from) THEN s
    ELSE IF StartsWith(s, 1, from)
         THEN to \o Replace(Rest(s, Len(from) + 1), from, to)
         ELSE Ch(s, 1) \o Replace(Rest(s, 2), from, to)

\* The (specifier, fragment) pairs of the replace chain, in program order.
Replacements_clobber ==
    << <<"%Y", "\\d{1,4}">>,
       <<"%C", "\\d{1,2}">>,
       <<"%y", "\\d{1,2">>,
       <<"%m", "\\d{1,2}">>,
       <<"%b", "[A-Za-z]{3}">>,
       <<"%B", "[A-Za-z]{3,4,5,6,7,8,9}">>,
       <<"%h", "[A-Za-z]{3}">>,
       <<"%d", "\\d{1,2}">>,
       <<"%H", "\\d{1,2}">>,
       <<"%M", "\\d{1,2}">>,
       <<"%S", "%s{1,2}">>,
       <<"%.f", "\\d{1,}">>,
       <<"%s", "\\d{1,10}">> >>

Replacements ==
    << <<"%Y", "\\d{1,4}">>,
       <<"%C", "\\d{1,2}">>,
       <<"%y", "\\d{1,2">>,
       <<"%m", "\\d{1,2}">>,
       <<"%b", "[A-Za-z]{3}">>,
       <<"%B", "[A-Za-z]{3,4,5,6,7,8,9}">>,
       <<"%h", "[A-Za-z]{3}">>,
       <<"%d", "\\d{1,2}">>,
       <<"%H", "\\d{1,2}">>,
       <<"%M", "\\d{1,2}">>,
       <<"%S", "\\d{1,2}">>,
       <<"%.f", "\\d{1,}">>,
       <<"%s", "\\d{1,10}">> >>

RECURSIVE ReplaceChain(_, _)
ReplaceChain(s, k) ==
    IF k > Len(Replacements) THEN s
    ELSE ReplaceChain(Replace(s, Replacements[k][1], Replacements[k][2]), k + 1)

strftime_to_regex_epoch9(time_format) ==
    ReplaceChain(Replace(time_format, "%s", "\\d{1,9}"), 1)

strftime_to_regex(time_format) == ReplaceChain(time_format, 1)

-----------------------------------------------------------------------------
(* Regex::new on the compiled pattern (regex crate).  An element of a      *)
(* parsed pattern is one atom with its counted repetition:                 *)
(*   cls "digit" for \d, "alpha" for [A-Za-z], "any" for ., "lit" for a    *)
(*   character standing for itself; min..max repetitions, greedy.          *)
(* Texts are ASCII lines: \d is taken over 0-9 and '.' never meets a        *)
(* newline.  Patterns hold no other escape, class or operator than these.  *)

Unbounded == -1

RegexError == [ok |-> FALSE, elems |-> <<>>]

RegexOk(elems) == [ok |-> TRUE, elems |-> elems]

Atom(cls, ch) == [cls |-> cls, ch |-> ch, min |-> 1, max |-> 1]

RECURSIVE NumVal(_)
NumVal(s) ==
    IF s = "" THEN 0
    ELSE NumVal(SubSeq(s, 1, Len(s) - 1)) * 10 + DigitVal(Ch(s, Len(s)))

\* parse_decimal: the index just after the digit run that starts at i.
RECURSIVE DecEnd(_, _)
DecEnd(p, i) == IF IsDigit(Ch(p, i)) THEN DecEnd(p, i + 1) ELSE i

RECURSIVE ParseRegex(_, _, _)
RECURSIVE ParseRepetition(_, _, _, _)

\* parse_counted_repetition; i is the index just after the atom.
ParseRepetition(p, i, acc, atom) ==
    IF Ch(p, i) # "{" THEN ParseRegex(p, i, Append(acc, atom))
    ELSE
      LET a == i + 1
          b == DecEnd(p, a)
          lo == NumVal(SubSeq(p, a, b - 1))
      IN  IF b = a THEN RegexError                    \* no decimal after {
          ELSE IF b > Len(p) THEN RegexError          \* unclosed counted repetition
          ELSE IF Ch(p, b) = ","
          THEN IF b + 1 > Len(p) THEN RegexError
               ELSE IF Ch(p, b + 1) = "}"
               THEN ParseRegex(p, b + 2,
                        Append(acc, [atom EXCEPT !.min = lo, !.max = Unbounded]))
               ELSE LET c == DecEnd(p, b + 1)
                        hi == NumVal(SubSeq(p, b + 1, c - 1))
                    IN  IF c = b + 1 THEN RegexError
                        ELSE IF Ch(p, c) # "}" THEN RegexError
                        ELSE IF hi < lo THEN RegexError
                        ELSE ParseRegex(p, c + 1,
                                 Append(acc, [atom EXCEPT !.min = lo, !.max = hi]))
          ELSE IF Ch(p, b) = "}"
          THEN ParseRegex(p, b + 1, Append(acc, [atom EXCEPT !.min = lo, !.max = lo]))
          ELSE RegexError

ParseRegex(p, i, acc) ==
    IF i > Len(p) THEN RegexOk(acc)
    ELSE LET c == Ch(p, i) IN
      CASE c = "\\" -> IF Ch(p, i + 1) = "d"
                        THEN ParseRepetition(p, i + 2, acc, Atom("digit", ""))
                        ELSE IF Ch(p, i + 1) = "."
                        THEN ParseRepetition(p, i + 2, acc, Atom("lit", "."))
                        ELSE RegexError
        [] c = "["  -> IF StartsWith(p, i, "[A-Za-z]")
                        THEN ParseRepetition(p, i + 8, acc, Atom("alpha", ""))
                        ELSE RegexError            \* unclosed character class
        [] c = "."  -> ParseRepetition(p, i + 1, acc, Atom("any", ""))
        [] c = "{"  -> RegexError                  \* repetition without an atom
        [] OTHER    -> ParseRepetition(p, i + 1, acc, Atom("lit", c))

\* The compiled Regex keeps its pattern text (as_str) and its program.
RegexNew(pattern) ==
    LET r == ParseRegex(pattern, 1, <<>>)
    IN  [ok |-> r.ok, pattern |-> pattern, elems |-> r.elems]

InClass(e, c) ==
    CASE e.cls = "digit" -> IsDigit(c)
      [] e.cls = "alpha" -> IsAlpha(c)
      [] e.cls = "any"   -> Len(c) = 1
      [] OTHER           -> c = e.ch

\* Number of characters from index i on that are in the class of e, at most cap.
RECURSIVE Run(_, _, _, _)
Run(e, s, i, cap) ==
    IF cap = 0 \/ i > Len(s) \/ ~InClass(e, Ch(s, i)) THEN 0
    ELSE 1 + Run(e, s, i + 1, cap - 1)

NoMatch == -1

\* Backtracking match of elems[k..] at index i: the index just after the
\* preferred (greedy, leftmost-first) match, or NoMatch.
RECURSIVE MatchFrom(_, _, _, _)
RECURSIVE TryCount(_, _, _, _, _)

TryCount(elems, k, s, i, n) ==
    IF n < elems[k].min THEN NoMatch
    ELSE LET r == MatchFrom(elems, k + 1, s, i + n)
         IN  IF r # NoMatch THEN r ELSE TryCount(elems, k, s, i, n - 1)

MatchFrom(elems, k, s, i) ==
    IF k > Len(elems) THEN i
    ELSE LET e == elems[k]
             cap == IF e.max = Unbounded THEN Len(s) ELSE e.max
         IN  TryCount(elems, k, s, i, Run(e, s, i, cap))

NoSpan == <<>>

\* Regex::captures(s)?.get(0): the span <<start, end>> (end exclusive) of the
\* first match when starts are tried left to right.
RECURSIVE SearchFrom_last(_, _, _)
SearchFrom_last(elems, s, i) ==
    IF i > Len(s) + 1 THEN NoSpan
    ELSE LET later == SearchFrom_last(elems, s, i + 1)
             r == MatchFrom(elems, 1, s, i)
         IN  IF later # NoSpan THEN later
             ELSE IF r # NoMatch THEN <<i, r>> ELSE NoSpan

RECURSIVE SearchFrom(_, _, _)
SearchFrom(elems, s, i) ==
    IF i > Len(s) + 1 THEN NoSpan
    ELSE LET r == MatchFrom(elems, 1, s, i)
         IN  IF r # NoMatch THEN <<i, r>> ELSE SearchFrom(elems, s, i + 1)

Captures(elems, s) == SearchFrom(elems, s, 1)

SpanStr(s, span) == SubSeq(s, span[1], span[2] - 1)

-----------------------------------------------------------------------------
(* NaiveDateTime::parse_from_str(matched, datetime_format) and timestamp() *)
(* (chrono), as called by find_timestamp.                                  *)

Unset == -1

NumItem(field, width) == [kind |-> "num", field |-> field, width |-> width, ch |-> ""]

\* The item chrono's StrftimeItems yields for "%" followed by c.
SpecItem(c) ==
    CASE c = "Y" -> NumItem("year", 4)
      [] c = "C" -> NumItem("year_div_100", 2)
      [] c = "y" -> NumItem("year_mod_100", 2)
      [] c = "m" -> NumItem("month", 2)
      [] c = "d" -> NumItem("day", 2)
      [] c = "H" -> NumItem("hour", 2)
      [] c = "M" -> NumItem("minute", 2)
      [] c = "S" -> NumItem("second", 2)
      [] c = "s" -> NumItem("timestamp", Unbounded)
      [] c \in {"b", "h"} -> [kind |-> "short_month", field |-> "month", width |-> 3, ch |-> ""]
      [] c = "B" -> [kind |-> "long_month", field |-> "month", width |-> 3, ch |-> ""]
      [] c = "%" -> [kind |-> "lit", field |-> "", width |-> 1, ch |-> "%"]
      [] OTHER   -> [kind |-> "error", field |-> "", width |-> 0, ch |-> ""]

RECURSIVE StrftimeItems(_, _)
StrftimeItems(fmt, i) ==
    IF i > Len(fmt) THEN <<>>
    ELSE IF Ch(fmt, i) = "%"
    THEN IF StartsWith(fmt, i, "%.f")
         THEN <<[kind |-> "nano", field |-> "", width |-> 0, ch |-> ""]>>
                  \o StrftimeItems(fmt, i + 3)
         ELSE <<SpecItem(Ch(fmt, i + 1))>> \o StrftimeItems(fmt, i + 2)
    ELSE <<[kind |-> "lit", field |-> "", width |-> 1, ch |-> Ch(fmt, i)]>>
             \o StrftimeItems(fmt, i + 1)

EmptyParsed ==
    [year |-> Unset, year_div_100 |-> Unset, year_mod_100 |-> Unset,
     month |-> Unset, day |-> Unset, hour |-> Unset, minute |-> Unset,
     second |-> Unset, timestamp |-> Unset]

ParseErr(kind) == [ok |-> FALSE, err |-> kind, parsed |-> EmptyParsed]

MonthNames == <<"jan", "feb", "mar", "apr", "may", "jun",
                "jul", "aug", "sep", "oct", "nov", "dec">>

LongMonthSuffix == <<"uary", "ruary", "ch", "il", "", "e",
                     "y", "ust", "tember", "ober", "ember", "ember">>

\* scan::short_month0 + 1, or 0 when the three letters name no month.
MonthOf(s3) ==
    LET ms == {m \in 1..12 : MonthNames[m] = ToLower(s3)}
    IN  IF ms = {} THEN 0 ELSE CHOOSE m \in ms : TRUE

RECURSIVE TrimLeft(_)
TrimLeft(s) == IF Ch(s, 1) = " " THEN TrimLeft(Rest(s, 2)) ELSE s

DigitRun(s, cap) == Run(Atom("digit", ""), s, 1, cap)

\* Parsed::set_*: a field already set to another value is IMPOSSIBLE; an hour
\* outside 0..23 is OUT_OF_RANGE when set.
RECURSIVE Parse(_, _, _, _)
SetField(items, k, s, parsed, field, v) ==
    IF field = "hour" /\ v > 23 THEN ParseErr("OutOfRange")
    ELSE IF parsed[field] # Unset /\ parsed[field] # v THEN ParseErr("Impossible")
    ELSE Parse(items, k + 1, s, [parsed EXCEPT ![field] = v])

\* format::parse: consumes s item by item; all of s must be consumed.
\* (The sign a year may carry is left out: the patterns match digits there.)
Parse(items, k, s, parsed) ==
    IF k > Len(items)
    THEN IF s = "" THEN [ok |-> TRUE, err |-> "", parsed |-> parsed]
         ELSE ParseErr("TooLong")
    ELSE LET it == items[k] IN
      CASE it.kind = "lit" ->
             IF s = "" THEN ParseErr("TooShort")
             ELSE IF Ch(s, 1) # it.ch THEN ParseErr("Invalid")
             ELSE Parse(items, k + 1, Rest(s, 2), parsed)
        [] it.kind = "num" ->
             LET t == TrimLeft(s)
                 n == DigitRun(t, IF it.width = Unbounded THEN Len(t) ELSE it.width)
             IN  IF n = 0 THEN ParseErr(IF t = "" THEN "TooShort" ELSE "Invalid")
                 ELSE SetField(items, k, Rest(t, n + 1), parsed, it.field,
                               NumVal(SubSeq(t, 1, n)))
        [] it.kind \in {"short_month", "long_month"} ->
             LET m == MonthOf(SubSeq(s, 1, 3))
                 after == Rest(s, 4)
                 suffix == IF m = 0 THEN "" ELSE LongMonthSuffix[m]
                 long == it.kind = "long_month"
                           /\ Len(after) >= Len(suffix)
                           /\ ToLower(SubSeq(after, 1, Len(suffix))) = suffix
             IN  IF Len(s) < 3 THEN ParseErr("TooShort")
                 ELSE IF m = 0 THEN ParseErr("Invalid")
                 ELSE SetField(items, k,
                               IF long THEN Rest(after, Len(suffix) + 1) ELSE after,
                               parsed, "month", m)
        [] it.kind = "nano" ->
             \* the fraction is optional; its value does not reach timestamp()
             IF Ch(s, 1) # "." THEN Parse(items, k + 1, s, parsed)
             ELSE LET n == DigitRun(Rest(s, 2), Len(s))
                  IN  IF n = 0 THEN ParseErr(IF Len(s) = 1 THEN "TooShort" ELSE "Invalid")
                      ELSE Parse(items, k + 1, Rest(s, n + 2), parsed)
        [] OTHER -> ParseErr("BadFormat")

IsLeap(y) == (y % 4 = 0 /\ y % 100 # 0) \/ y % 400 = 0

DaysInMonth(y, m) ==
    IF m = 2 THEN (IF IsLeap(y) THEN 29 ELSE 28)
    ELSE IF m \in {4, 6, 9, 11} THEN 30 ELSE 31

\* Days from 1970-01-01 to the proleptic Gregorian date y-m-d.
DaysFromCivil(y, m, d) ==
    LET yy  == IF m <= 2 THEN y - 1 ELSE y
        era == yy \div 400
        yoe == yy - era * 400
        mp  == IF m > 2 THEN m - 3 ELSE m + 9
        doy == (153 * mp + 2) \div 5 + d - 1
        doe == yoe * 365 + yoe \div 4 - yoe \div 100 + doy
    IN  era * 146097 + doe - 719468

\* Parsed::to_naive_date: [ok, err, days].
to_naive_date(p) ==
    LET bad(kind) == [ok |-> FALSE, err |-> kind, days |-> 0]
        y == IF p.year # Unset THEN p.year
             ELSE IF p.year_div_100 # Unset /\ p.year_mod_100 # Unset
                  THEN p.year_div_100 * 100 + p.year_mod_100
             ELSE IF p.year_mod_100 # Unset
                  THEN p.year_mod_100 + (IF p.year_mod_100 < 70 THEN 2000 ELSE 1900)
             ELSE Unset
    IN  IF p.year # Unset /\ p.year_div_100 # Unset /\ p.year_div_100 # p.year \div 100
        THEN bad("Impossible")
        ELSE IF p.year # Unset /\ p.year_mod_100 # Unset /\ p.year_mod_100 # p.year % 100
        THEN bad("Impossible")
        ELSE IF p.year = Unset /\ p.year_div_100 # Unset /\ p.year_mod_100 = Unset
        THEN bad("NotEnough")
        ELSE IF y = Unset \/ p.month = Unset \/ p.day = Unset THEN bad("NotEnough")
        ELSE IF p.month \notin 1..12 \/ p.day \notin 1..DaysInMonth(y, p.month)
        THEN bad("OutOfRange")
        ELSE [ok |-> TRUE, err |-> "", days |-> DaysFromCivil(y, p.month, p.day)]

\* Parsed::to_naive_time: [ok, err, secs]: hour and minute are required, a
\* missing second is 0, second 60 is the leap second of second 59.
to_naive_time_defaults(p) ==
    LET h == IF p.hour = Unset THEN 0 ELSE p.hour
        m == IF p.minute = Unset THEN 0 ELSE p.minute
        s == IF p.second = Unset THEN 0 ELSE p.second
    IN  IF m > 59 \/ s > 60 THEN [ok |-> FALSE, err |-> "OutOfRange", secs |-> 0]
        ELSE [ok |-> TRUE, err |-> "",
              secs |-> h * 3600 + m * 60 + (IF s = 60 THEN 59 ELSE s)]

to_naive_time(p) ==
    LET bad(kind) == [ok |-> FALSE, err |-> kind, secs |-> 0]
        s == IF p.second = Unset THEN 0 ELSE p.second
    IN  IF p.hour = Unset THEN bad("NotEnough")
        ELSE IF p.minute = Unset THEN bad("NotEnough")
        ELSE IF p.minute > 59 THEN bad("OutOfRange")
        ELSE IF s > 60 THEN bad("OutOfRange")
        ELSE [ok |-> TRUE, err |-> "",
              secs |-> p.hour * 3600 + p.minute * 60 + (IF s = 60 THEN 59 ELSE s)]

None == <<>>
Some(v) == <<v>>

\* A combination of %s with calendar fields, which the templates of this
\* model never produce, is outside the modelled part of chrono.
Unmodelled == <<0, 0>>

\* Parsed::to_naive_datetime_with_offset(0) followed by timestamp(), as the
\* Option that .ok() leaves.
to_timestamp(p) ==
    LET date == to_naive_date(p)
        time == to_naive_time(p)
        calendar == \E f \in {"year", "year_div_100", "year_mod_100", "month",
                              "day", "hour", "minute", "second"} : p[f] # Unset
    IN  IF date.ok /\ time.ok
        THEN IF p.timestamp = Unset THEN Some(date.days * 86400 + time.secs)
             ELSE Unmodelled
        ELSE IF p.timestamp # Unset
        THEN IF calendar THEN Unmodelled ELSE Some(p.timestamp)
        ELSE None

parse_from_str(s, fmt) ==
    LET r == Parse(StrftimeItems(fmt, 1), 1, s, EmptyParsed)
    IN  IF r.ok THEN to_timestamp(r.parsed) ELSE None

-----------------------------------------------------------------------------
(* TimestampFinder *)

Threads == {"t1", "t2"}

NoFinder == <<>>
NoValue == <<>>

TheFinder == finder[1]

DefaultFormat == "%d/%b/%Y:%H:%M:%S%.f"

\* The span of the regex match in s (regex_match), or NoSpan.
find_match(f, s) == Captures(f.regex.elems, s)

find_timestamp(f, s) ==
    LET m == find_match(f, s)
    IN  IF m = NoSpan THEN None
        ELSE parse_from_str(SpanStr(s, m), f.datetime_format)

\* Items of BufReader::lines(): a line, or a failed read.
OkLine(l) == <<"Ok", l>>
ErrRead == <<"Err", "">>

\* new_with_format(format_arg)
NewWithFormat ==
    /\ ctor = "pending"
    /\ LET datetime_regex == strftime_to_regex(format_arg)
           regex == RegexNew(datetime_regex)
       IN  IF regex.ok
           THEN /\ finder' = <<[datetime_format |-> format_arg,
                                regex |-> regex]>>
                /\ ctor' = "ok"
           ELSE /\ finder' = NoFinder
                /\ ctor' = "err"
    /\ UNCHANGED <<text, format_arg, pc, reader, lines_read, timestamps, scan_ret,
                   arg, regex_match, ret>>

\* find_timestamp(&self, s) called by thread t
FindTimestamp_rebuild(t, s) ==
    /\ ctor = "ok"
    /\ pc[t] = "idle"
    /\ arg' = [arg EXCEPT ![t] = <<s>>]
    /\ regex_match' = [regex_match EXCEPT ![t] = find_match(TheFinder, s)]
    /\ ret' = [ret EXCEPT ![t] = find_timestamp(TheFinder, s)]
    /\ finder' = <<[TheFinder EXCEPT !.regex = RegexNew(s)]>>
    /\ UNCHANGED <<text, format_arg, ctor, pc, reader, lines_read, timestamps, scan_ret>>

FindTimestamp(t, s) ==
    /\ ctor = "ok"
    /\ pc[t] = "idle"
    /\ arg' = [arg EXCEPT ![t] = <<s>>]
    /\ regex_match' = [regex_match EXCEPT ![t] = find_match(TheFinder, s)]
    /\ ret' = [ret EXCEPT ![t] = find_timestamp(TheFinder, s)]
    /\ UNCHANGED <<text, format_arg, ctor, finder, pc, reader, lines_read, timestamps,
                   scan_ret>>

\* scan(&self, reader) called by thread t: the iterator chain is built
ScanStart(t, r) ==
    /\ ctor = "ok"
    /\ pc[t] = "idle"
    /\ pc' = [pc EXCEPT ![t] = "scanning"]
    /\ reader' = [reader EXCEPT ![t] = r]
    /\ lines_read' = [lines_read EXCEPT ![t] = <<>>]
    /\ timestamps' = [timestamps EXCEPT ![t] = <<>>]
    /\ scan_ret' = [scan_ret EXCEPT ![t] = NoValue]
    /\ UNCHANGED <<text, format_arg, ctor, finder, arg, regex_match, ret>>

\* collect() pulls one item through lines().map_while(Result::ok).filter_map(..)
ScanLine_skip_err(t) ==
    /\ pc[t] = "scanning"
    /\ Len(lines_read[t]) < Len(reader[t])
    /\ LET item == reader[t][Len(lines_read[t]) + 1]
           found == find_timestamp(TheFinder, item[2])
       IN  /\ lines_read' = [lines_read EXCEPT ![t] = Append(@, item)]
           /\ timestamps' = [timestamps EXCEPT ![t] =
                                IF item[1] = "Err" \/ found = None THEN @
                                ELSE Append(@, found[1])]
           /\ UNCHANGED <<pc, scan_ret>>
    /\ UNCHANGED <<text, format_arg, ctor, finder, reader, arg, regex_match, ret>>

ScanLine_stop_at_none(t) ==
    /\ pc[t] = "scanning"
    /\ Len(lines_read[t]) < Len(reader[t])
    /\ LET item == reader[t][Len(lines_read[t]) + 1]
           found == find_timestamp(TheFinder, item[2])
       IN  /\ lines_read' = [lines_read EXCEPT ![t] = Append(@, item)]
           /\ IF item[1] = "Err" \/ found = None
              THEN /\ pc' = [pc EXCEPT ![t] = "idle"]
                   /\ scan_ret' = [scan_ret EXCEPT ![t] = <<"Ok", timestamps[t]>>]
                   /\ UNCHANGED timestamps
              ELSE /\ timestamps' = [timestamps EXCEPT ![t] = Append(@, found[1])]
                   /\ UNCHANGED <<pc, scan_ret>>
    /\ UNCHANGED <<text, format_arg, ctor, finder, reader, arg, regex_match, ret>>

ScanLine(t) ==
    /\ pc[t] = "scanning"
    /\ Len(lines_read[t]) < Len(reader[t])
    /\ LET item == reader[t][Len(lines_read[t]) + 1]
           found == find_timestamp(TheFinder, item[2])
       IN  /\ lines_read' = [lines_read EXCEPT ![t] = Append(@, item)]
           /\ IF item[1] = "Err"
              THEN \* map_while(Result::ok) ends the iteration; scan returns Ok
                   /\ pc' = [pc EXCEPT ![t] = "idle"]
                   /\ scan_ret' = [scan_ret EXCEPT ![t] = <<"Ok", timestamps[t]>>]
                   /\ UNCHANGED timestamps
              ELSE /\ timestamps' = [timestamps EXCEPT ![t] =
                                        IF found = None THEN @ ELSE Append(@, found[1])]
                   /\ UNCHANGED <<pc, scan_ret>>
    /\ UNCHANGED <<text, format_arg, ctor, finder, reader, arg, regex_match, ret>>

\* lines() is exhausted: collect() finishes and scan returns Ok(timestamps)
ScanEnd(t) ==
    /\ pc[t] = "scanning"
    /\ Len(lines_read[t]) = Len(reader[t])
    /\ pc' = [pc EXCEPT ![t] = "idle"]
    /\ scan_ret' = [scan_ret EXCEPT ![t] = <<"Ok", timestamps[t]>>]
    /\ UNCHANGED <<text, format_arg, ctor, finder, reader, lines_read, timestamps,
                   arg, regex_match, ret>>

-----------------------------------------------------------------------------
(* Inputs *)

\* Concatenations of at most n members of the set P of strings.
RECURSIVE Concats(_, _)
Concats(P, n) ==
    IF n = 0 THEN {""}
    ELSE LET prev == Concats(P, n - 1)
         IN  prev \cup {a \o b : a \in prev, b \in P}

SupportedSpecifiers == {Replacements[k][1] : k \in 1..Len(Replacements)}

PlainSeparators == {":", "-"}

\* Templates of the compiler specification: the supported specifiers, plain
\* separators, and the characters specifiers are made of.
CompilePieces == SupportedSpecifiers \cup PlainSeparators \cup {"%", ".", "f", "Y"}

CompileTemplates == Concats(CompilePieces, MaxPieces)

SampleTemplates ==
    {DefaultFormat, "%s", "%H:%M:%S", "%Y-%m-%d", "%Y-%m-%dT%H:%M", "%H.%M",
     "%y-%m-%d", "%d/%B/%Y"}

FixtureLine == "Nov 23 06:26:40 ip-10-1-1-1 [23/Nov/2019:06:26:40.781] public 0/0/0/78/78 206"

TwoCandidates == "[32/Nov/2019:06:26:40.781] [23/Nov/2019:06:26:41.000]"

DefaultTexts ==
    {w[1] \o d \o "/" \o mon \o "/" \o y \o ":06:26:" \o sec \o frac \o w[2] :
        w \in {<<"", "">>, <<"[", "] x">>},
        d \in {"23", "32", "1"}, mon \in {"Nov", "nov", "Foo"},
        y \in {"2019", "1970"}, sec \in {"40", "4", "60", "401"},
        frac \in {"", ".781"}}
    \cup {FixtureLine, TwoCandidates, "no timestamp here"}

BinaryRuns == Concats({"0", "1"}, MaxDigits)

EpochTexts ==
    {pre \o run \o post : pre \in {"", "up "}, run \in BinaryRuns, post \in {"", " x9"}}
    \cup {"1621568291 ip-10-1-26-81 haproxy[20128]: 54.242.135",
          "1234567 ip-10-1-26-81 haproxy[20128]: 54.242.135"}

TwoDigitTexts == {"0", "7", "06", "23", "26", "59", "60", "99"}

TimeTexts ==
    {pre \o h \o ":" \o m \o ":" \o sec :
        pre \in {"", "at "}, h \in TwoDigitTexts, m \in TwoDigitTexts,
        sec \in TwoDigitTexts}

DateTexts ==
    {pre \o y \o "-" \o m \o "-" \o d :
        pre \in {"", "on "}, y \in {"1970", "2019", "2020"},
        m \in {"1", "02", "11", "13"}, d \in {"1", "23", "29", "30", "32"}}

DateTimeTexts ==
    {date \o "T" \o h \o ":" \o m :
        date \in DateTexts, h \in {"06", "23", "24"}, m \in {"26", "5", "60"}}

DotTexts ==
    {h \o sep \o m \o post :
        h \in {"12", "7"}, sep \in {".", "x", ":", " "}, m \in {"34", "5"},
        post \in {"", " 12.34"}}

FindTexts(fmt) ==
    CASE fmt = DefaultFormat -> DefaultTexts
      [] fmt = "%s" -> EpochTexts
      [] fmt = "%H:%M:%S" -> TimeTexts
      [] fmt = "%Y-%m-%d" -> DateTexts
      [] fmt = "%Y-%m-%dT%H:%M" -> DateTimeTexts
      [] fmt = "%H.%M" -> DotTexts
      [] OTHER -> {"no timestamp here"}

\* Lines of the readers given to scan.
ScanLines(fmt) ==
    CASE fmt = DefaultFormat ->
             {FixtureLine, "[23/Nov/2019:06:27:41.780]", TwoCandidates,
              "no timestamp here"}
      [] fmt = "%s" ->
             {"1621568291 ip-10-1-26-81", "1234567 haproxy", "no digits"}
      [] fmt = "%H:%M:%S" -> {"12:34:56", "none"}
      [] fmt = "%Y-%m-%d" -> {"2019-11-23", "none"}
      [] fmt = "%Y-%m-%dT%H:%M" -> {"2019-11-23T06:26", "1970-01-01T00:01", "2019-13-01T00:00"}
      [] fmt = "%H.%M" -> {"12x34", "none"}
      [] OTHER -> {"none"}

Readers(lines, n) ==
    UNION {[1..k -> {OkLine(l) : l \in lines} \cup {ErrRead}] : k \in 0..n}

SharedTemplates == {DefaultFormat, "%s", "%y-%m-%d"}

SharedScanLines(fmt) ==
    CASE fmt = DefaultFormat -> {"[23/Nov/2019:06:27:41.780]"}
      [] fmt = "%s" -> {"1234567 haproxy"}
      [] OTHER -> {"none"}

SharedLines(fmt) ==
    CASE fmt = DefaultFormat -> {"[23/Nov/2019:06:27:41.780]", "no timestamp here"}
      [] fmt = "%s" -> {"1234567 haproxy", "no digits"}
      [] OTHER -> {"none"}

-----------------------------------------------------------------------------
(* Specifications *)

InitWith(formats) ==
    /\ format_arg \in formats
    /\ ctor = "pending"
    /\ finder = NoFinder
    /\ pc = [t \in Threads |-> "idle"]
    /\ reader = [t \in Threads |-> <<>>]
    /\ lines_read = [t \in Threads |-> <<>>]
    /\ timestamps = [t \in Threads |-> <<>>]
    /\ scan_ret = [t \in Threads |-> NoValue]
    /\ arg = [t \in Threads |-> NoValue]
    /\ regex_match = [t \in Threads |-> NoSpan]
    /\ ret = [t \in Threads |-> None]

\* Two threads share one Finder.
Init == InitWith(SharedTemplates) /\ text = ""

Next ==
    \/ NewWithFormat
    \/ \E t \in Threads : \E s \in SharedLines(format_arg) : FindTimestamp(t, s)
    \/ \E t \in Threads : \E r \in Readers(SharedScanLines(format_arg), MaxSharedLines) :
           ScanStart(t, r)
    \/ \E t \in Threads : ScanLine(t)
    \/ \E t \in Threads : ScanEnd(t)

Spec == Init /\ [][Next]_vars

\* The format compiler and the constructor alone, over all small templates.
InitCompile == InitWith(CompileTemplates) /\ text = ""

NextCompile == NewWithFormat

SpecCompile == InitCompile /\ [][NextCompile]_vars

\* One call of find_timestamp: Init draws the template and the text s.
InitFind == InitWith(SampleTemplates) /\ text \in FindTexts(format_arg)

NextFind ==
    \/ NewWithFormat
    \/ arg["t1"] = NoValue /\ FindTimestamp("t1", text)

SpecFind == InitFind /\ [][NextFind]_vars

\* One caller of scan.
InitScan == InitWith(SampleTemplates) /\ text = ""

NextScan ==
    \/ NewWithFormat
    \/ \E r \in Readers(ScanLines(format_arg), MaxLines) : ScanStart("t1", r)
    \/ ScanLine("t1")
    \/ ScanEnd("t1")

SpecScan == InitScan /\ [][NextScan]_vars

-----------------------------------------------------------------------------
(* Reference notions used to state the properties *)

\* The table-driven single left-to-right pass: at each position the fragment
\* of the (longest) specifier that begins there, else the character itself.
TokensAt(s, i) == {k \in 1..Len(Replacements) : StartsWith(s, i, Replacements[k][1])}

LongestAt(s, i) ==
    CHOOSE k \in TokensAt(s, i) :
        \A j \in TokensAt(s, i) : Len(Replacements[k][1]) >= Len(Replacements[j][1])

RECURSIVE SinglePass(_, _)
SinglePass(s, i) ==
    IF i > Len(s) THEN ""
    ELSE IF TokensAt(s, i) = {} THEN Ch(s, i) \o SinglePass(s, i + 1)
    ELSE Replacements[LongestAt(s, i)][2]
             \o SinglePass(s, i + Len(Replacements[LongestAt(s, i)][1]))

\* s is made of supported specifiers and plain separators only.
RECURSIVE OnlySupported(_, _)
OnlySupported(s, i) ==
    IF i > Len(s) THEN TRUE
    ELSE IF TokensAt(s, i) # {}
    THEN OnlySupported(s, i + Len(Replacements[LongestAt(s, i)][1]))
    ELSE Ch(s, i) \in PlainSeparators /\ OnlySupported(s, i + 1)

\* The language of a parsed pattern, without any search strategy: the set of
\* indices at which a match of elems[k..] that begins at an index of P can end.
RECURSIVE LangEnds(_, _, _, _)
LangEnds(elems, k, s, P) ==
    IF k > Len(elems) \/ P = {} THEN P
    ELSE LET e == elems[k]
             fits(p, n) == /\ p + n - 1 <= Len(s)
                           /\ e.max = Unbounded \/ n <= e.max
                           /\ \A j \in p..(p + n - 1) : InClass(e, Ch(s, j))
         IN  LangEnds(elems, k + 1, s,
                 UNION {{p + n : n \in {m \in e.min..Len(s) : fits(p, m)}} : p \in P})

MatchStarts(elems, s) ==
    {i \in 1..(Len(s) + 1) : LangEnds(elems, 1, s, {i}) # {}}

Min(S) == CHOOSE x \in S : \A y \in S : x <= y

\* The pattern in which every specifier has its fragment and every other
\* template character stands for itself.
RECURSIVE LiteralElems(_, _)
LiteralElems(fmt, i) ==
    IF i > Len(fmt) THEN <<>>
    ELSE IF TokensAt(fmt, i) # {}
    THEN RegexNew(Replacements[LongestAt(fmt, i)][2]).elems
             \o LiteralElems(fmt, i + Len(Replacements[LongestAt(fmt, i)][1]))
    ELSE <<Atom("lit", Ch(fmt, i))>> \o LiteralElems(fmt, i + 1)

\* The default template with %.f as a '.' followed by one or more digits.
DefaultWithFraction ==
    RegexNew("\\d{1,2}/[A-Za-z]{3}/\\d{1,4}:\\d{1,2}:\\d{1,2}:\\d{1,2}\\.\\d{1,}").elems

\* filter_map of find_timestamp over a sequence of Ok items.
RECURSIVE Found(_, _)
Found(f, items) ==
    IF items = <<>> THEN <<>>
    ELSE LET r == find_timestamp(f, Head(items)[2])
         IN  (IF r = None THEN <<>> ELSE <<r[1]>>) \o Found(f, Tail(items))

ErrIndexes(r) == {k \in 1..Len(r) : r[k] = ErrRead}

\* The items before the first failed read.
OkPrefix(r) == IF ErrIndexes(r) = {} THEN r ELSE SubSeq(r, 1, Min(ErrIndexes(r)) - 1)

\* The Finder that new_with_format builds from a template.
Built(fmt) == [datetime_format |-> fmt, regex |-> RegexNew(strftime_to_regex(fmt))]

Fields(fmt) == {StrftimeItems(fmt, 1)[k].field : k \in 1..Len(StrftimeItems(fmt, 1))}

-----------------------------------------------------------------------------
(* Properties of the format compiler (SpecCompile) *)

\* C10: for every template the chain of whole-string replacements yields the
\* output of the single left-to-right table-driven pass, and that output is
\* the pattern the constructed Finder holds.
C10_ChainEqualsSinglePass ==
    /\ strftime_to_regex(format_arg) = SinglePass(format_arg, 1)
    /\ ctor = "ok" => TheFinder.regex.pattern = SinglePass(format_arg, 1)

\* A Finder built from a template in which a specifier follows a stray '%'
\* and the specifiers %S, %.f and %s, which share characters, meet.
C10_Witness ==
    /\ ctor = "ok"
    /\ format_arg \in {"%%S", "%S%s", "%S%.f", "%%.f"}

\* C4: new_with_format succeeds for every template built only from supported
\* specifiers and plain separators.
C4_SupportedTemplatesCompile ==
    (ctor # "pending" /\ OnlySupported(format_arg, 1)) => ctor = "ok"

-----------------------------------------------------------------------------
(* Properties of find_timestamp (SpecFind) *)

Called(t) == ctor = "ok" /\ arg[t] # NoValue

\* C2: find_timestamp is decided by the leftmost match alone: None without a
\* match, else the parse of the matched substring that begins at the least
\* index where the pattern can match; a failed parse gives None, never an error.
C2_LeftmostMatchDecides ==
    \A t \in Threads : Called(t) =>
        LET s == arg[t][1]
            elems == TheFinder.regex.elems
            starts == MatchStarts(elems, s)
        IN  IF starts = {}
            THEN regex_match[t] = NoSpan /\ ret[t] = None
            ELSE /\ regex_match[t] # NoSpan
                 /\ regex_match[t][1] = Min(starts)
                 /\ regex_match[t][2] \in LangEnds(elems, 1, s, {Min(starts)})
                 /\ ret[t] = parse_from_str(SpanStr(s, regex_match[t]),
                                            TheFinder.datetime_format)
                 /\ ret[t] = None \/ Len(ret[t]) = 1

\* The first candidate has day 32 and is rejected although the text after it
\* holds a timestamp that find_timestamp accepts.
C2_Witness ==
    /\ Called("t1")
    /\ format_arg = DefaultFormat
    /\ arg["t1"] = <<TwoCandidates>>
    /\ SpanStr(TwoCandidates, regex_match["t1"]) = "32/Nov/2019:06:26:40"
    /\ ret["t1"] = None
    /\ find_timestamp(TheFinder, Rest(TwoCandidates, regex_match["t1"][2])) = Some(1574490401)

\* C5: what the pattern matches has, at each template character outside a
\* specifier, that very character.
C5_LiteralsMatchThemselves ==
    \A t \in Threads : (Called(t) /\ regex_match[t] # NoSpan) =>
        regex_match[t][2] \in
            LangEnds(LiteralElems(format_arg, 1), 1, arg[t][1], {regex_match[t][1]})

\* C6: with the default template the match is the match of the pattern whose
\* %.f fragment is a '.' followed by one or more digits.
C6_FractionFragment ==
    \A t \in Threads : (Called(t) /\ format_arg = DefaultFormat) =>
        regex_match[t] = Captures(DefaultWithFraction, arg[t][1])

\* C7: with template %s the result is the value of the leftmost digit run, of
\* its first 10 digits when it is longer, and None when the text has no digit.
C7_EpochDigitRun ==
    \A t \in Threads : (Called(t) /\ format_arg = "%s") =>
        LET s == arg[t][1]
            ds == {i \in 1..Len(s) : IsDigit(Ch(s, i))}
        IN  IF ds = {} THEN ret[t] = None
            ELSE LET i == Min(ds)
                     n == DigitRun(Rest(s, i), Len(s))
                     m == IF n > 10 THEN 10 ELSE n
                 IN  ret[t] = Some(NumVal(SubSeq(s, i, i + m - 1)))

\* A run of 11 digits: the value of the first 10.
C7_Witness ==
    /\ Called("t1")
    /\ format_arg = "%s"
    /\ arg["t1"] = <<"up 10000000011 x9">>
    /\ ret["t1"] = Some(1000000001)

\* C8 as stated: a template naming only the time of day, or only the date,
\* yields a value with the other fields at their epoch-start defaults.
C8_PartialTemplateDefaults ==
    \A t \in Threads : Called(t) =>
        /\ format_arg = "%H:%M:%S" =>
             \A h \in TwoDigitTexts, m \in TwoDigitTexts, sec \in TwoDigitTexts :
                (arg[t][1] = h \o ":" \o m \o ":" \o sec
                    /\ NumVal(h) <= 23 /\ NumVal(m) <= 59 /\ NumVal(sec) <= 59)
                => ret[t] = Some(NumVal(h) * 3600 + NumVal(m) * 60 + NumVal(sec))
        /\ format_arg = "%Y-%m-%d" =>
             (arg[t][1] = "2019-11-23" => ret[t] = Some(18223 * 86400))

\* C8 amended: a template without %s that omits the year, the month, the day,
\* the hour or the minute yields None on every text; only an omitted second
\* is defaulted, to 0.
C8_MissingFieldsYieldNone ==
    \A t \in Threads : Called(t) =>
        /\ ( /\ "timestamp" \notin Fields(format_arg)
             /\ \/ ~({"month", "day", "hour", "minute"} \subseteq Fields(format_arg))
                \/ Fields(format_arg) \cap {"year", "year_mod_100"} = {} )
           => ret[t] = None
        /\ format_arg = "%Y-%m-%dT%H:%M" =>
             \A pre \in {"", "on "}, y \in {"1970", "2019", "2020"},
                m \in {"1", "02", "11"}, d \in {"1", "23", "29", "30"},
                h \in {"06", "23"}, mi \in {"26", "5"} :
                (arg[t][1] = pre \o y \o "-" \o m \o "-" \o d \o "T" \o h \o ":" \o mi
                    /\ NumVal(d) <= DaysInMonth(NumVal(y), NumVal(m)))
                => ret[t] = Some(DaysFromCivil(NumVal(y), NumVal(m), NumVal(d)) * 86400
                                 + NumVal(h) * 3600 + NumVal(mi) * 60)

\* A conforming time of day is matched whole and yields None.
C8_Witness ==
    /\ Called("t1")
    /\ format_arg = "%H:%M:%S"
    /\ arg["t1"] = <<"23:26:59">>
    /\ regex_match["t1"] = <<1, 9>>
    /\ ret["t1"] = None

-----------------------------------------------------------------------------
(* Properties of scan (SpecScan) *)

Returned(t) == ctor = "ok" /\ scan_ret[t] # NoValue

\* C1: scan takes the lines in order and collects exactly the results of the
\* lines that yield a value, in line order; a line yielding None adds nothing
\* and does not end the scan.
C1_ScanCollectsInOrder ==
    \A t \in Threads : ctor = "ok" =>
        /\ lines_read[t] = SubSeq(reader[t], 1, Len(lines_read[t]))
        /\ timestamps[t] = Found(TheFinder, OkPrefix(lines_read[t]))
        /\ (Returned(t) /\ ErrIndexes(reader[t]) = {}) =>
              /\ lines_read[t] = reader[t]
              /\ scan_ret[t] = <<"Ok", Found(TheFinder, reader[t])>>
              /\ Len(scan_ret[t][2]) =
                    Cardinality({k \in 1..Len(reader[t]) :
                                    find_timestamp(TheFinder, reader[t][k][2]) # None})

\* A line without a timestamp between two lines with one.
C1_Witness ==
    /\ Returned("t1")
    /\ format_arg = DefaultFormat
    /\ reader["t1"] = <<OkLine(FixtureLine), OkLine("no timestamp here"),
                        OkLine("[23/Nov/2019:06:27:41.780]")>>
    /\ scan_ret["t1"] = <<"Ok", <<1574490400, 1574490461>>>>

\* C3: when the k-th read fails, scan returns Ok with exactly the timestamps of
\* lines 1..k-1 and reads nothing after the failed read; no scan returns an error.
C3_TruncateOnReadError ==
    \A t \in Threads : Returned(t) =>
        /\ scan_ret[t][1] = "Ok"
        /\ ErrIndexes(reader[t]) # {} =>
              LET k == Min(ErrIndexes(reader[t]))
              IN  /\ lines_read[t] = SubSeq(reader[t], 1, k)
                  /\ scan_ret[t] = <<"Ok", Found(TheFinder, SubSeq(reader[t], 1, k - 1))>>

\* The second read fails; the third line would have yielded a timestamp.
C3_Witness ==
    /\ Returned("t1")
    /\ format_arg = DefaultFormat
    /\ reader["t1"] = <<OkLine(FixtureLine), ErrRead,
                        OkLine("[23/Nov/2019:06:27:41.780]")>>
    /\ scan_ret["t1"] = <<"Ok", <<1574490400>>>>

-----------------------------------------------------------------------------
(* Properties of the shared Finder (Spec) *)

\* C9: once built, the Finder never changes, its pattern is the compilation of
\* its template, and every result of find_timestamp and scan, whichever thread
\* obtains it and whatever the other thread does, is that of a Finder freshly
\* built from the template.
C9_FinderImmutable ==
    /\ [][finder # NoFinder => finder' = finder]_vars
    /\ [](ctor = "ok" =>
            LET fresh == Built(format_arg)
            IN  /\ finder = <<fresh>>
                /\ \A t \in Threads :
                      /\ arg[t] # NoValue => ret[t] = find_timestamp(fresh, arg[t][1])
                      /\ timestamps[t] = Found(fresh, OkPrefix(lines_read[t])))

\* One thread is in the middle of a scan while the other has finished a scan
\* and a find_timestamp call.
C9_Witness ==
    /\ ctor = "ok"
    /\ pc["t1"] = "scanning" /\ Len(lines_read["t1"]) = 1 /\ timestamps["t1"] # <<>>
    /\ scan_ret["t2"] # NoValue /\ scan_ret["t2"][2] # <<>>
    /\ arg["t2"] # NoValue /\ ret["t2"] # None

====
